---- MODULE Spec2Model ----
(***************************************************************************)
(* Model of the billing pipeline of                                        *)
(* src/Introduction_to_Unit_Testing_Dennis_Mutai.py:                       *)
(*   data_extraction (pd.read_csv), data_transformation (drop_duplicates,  *)
(*   '$' removal, float conversion, total_charges) and data_loading        *)
(*   (DataFrame.to_csv with index=False).                                  *)
(*                                                                         *)
(* A table (DataFrame) is [cols |-> sequence of column names,              *)
(*                         rows |-> sequence of rows],                     *)
(* a row is a function from the table's column names to cells, and a cell  *)
(* is a typed scalar [t |-> "str" | "int" | "float", s |-> text, v |-> n]. *)
(* Text is a sequence of one-character strings.  Floats are the            *)
(* integer-valued ones (no input text holds a decimal point).              *)
(***************************************************************************)
EXTENDS Integers, Sequences, FiniteSets, TLC

VARIABLES
    input_data,   \* the caller's DataFrame handed to data_transformation
    result,       \* outcome of the latest data_transformation call
    prev_result,  \* outcome of the call before it
    calls,        \* number of data_transformation calls made so far
    files,        \* the file system: path -> file content or NoFile
    loaded,       \* path -> the table of the latest successful data_loading
    io            \* outcome of the latest data_loading / data_extraction call

vars == <<input_data, result, prev_result, calls, files, loaded, io>>

----------------------------------------------------------------------------
(* Bounds of the explored inputs *)

MaxRows == 2
MaxCalls == 2

----------------------------------------------------------------------------
(* Cells and text *)

StrCell(s) == [t |-> "str", s |-> s, v |-> 0]
IntCell(n) == [t |-> "int", s |-> <<>>, v |-> n]
FloatCell(n) == [t |-> "float", s |-> <<>>, v |-> n]

Range(f) == {f[i] : i \in DOMAIN f}

Digits == <<"0", "1", "2", "3", "4", "5", "6", "7", "8", "9">>

IsDigit(c) == \E i \in 1..10 : Digits[i] = c

DigitVal(c) == (CHOOSE i \in 1..10 : Digits[i] = c) - 1

\* the texts Python's float()/int() accept, among the texts of the model:
\* a non-empty run of decimal digits
IsNumeric(s) == Len(s) > 0 /\ \A i \in 1..Len(s) : IsDigit(s[i])

RECURSIVE NumVal(_)
NumVal(s) ==
    IF Len(s) = 0 THEN 0
    ELSE 10 * NumVal(SubSeq(s, 1, Len(s) - 1)) + DigitVal(s[Len(s)])

\* Series.str.replace('$', ''): every occurrence of the literal '$' is removed
RECURSIVE str_replace(_)
str_replace(s) ==
    IF Len(s) = 0 THEN <<>>
    ELSE IF Head(s) = "$" THEN str_replace(Tail(s))
    ELSE <<Head(s)>> \o str_replace(Tail(s))

----------------------------------------------------------------------------
(* DataFrame operations used by data_transformation *)

HasColumn(data, c) == \E i \in 1..Len(data.cols) : data.cols[i] = c

\* DataFrame.drop_duplicates(): a new frame holding, in order, every row that
\* equals no earlier row on all columns
drop_duplicates(data) ==
    LET keep(i) == \A j \in 1..(i - 1) : data.rows[j] # data.rows[i]
        F[i \in 0..Len(data.rows)] ==
            IF i = 0 THEN <<>>
            ELSE IF keep(i) THEN Append(F[i - 1], data.rows[i]) ELSE F[i - 1]
    IN [cols |-> data.cols, rows |-> F[Len(data.rows)]]

\* a variant of setitem that drops an existing column and appends it anew
setitem_move_last(data, c, values) ==
    [cols |-> Append(SelectSeq(data.cols, LAMBDA k : k # c), c),
     rows |-> [i \in 1..Len(data.rows) |->
                 [k \in Range(data.cols) \cup {c} |->
                     IF k = c THEN values[i] ELSE data.rows[i][k]]]]

\* data[c] = values: an existing column is overwritten where it stands, a new
\* one is appended as the last column
setitem(data, c, values) ==
    [cols |-> IF HasColumn(data, c) THEN data.cols ELSE Append(data.cols, c),
     rows |-> [i \in 1..Len(data.rows) |->
                 [k \in Range(data.cols) \cup {c} |->
                     IF k = c THEN values[i] ELSE data.rows[i][k]]]]

getitem(data, c) == [i \in 1..Len(data.rows) |-> data.rows[i][c]]

----------------------------------------------------------------------------
(* data_transformation, line by line.  The function's local name `data` is  *)
(* bound either to the caller's frame ("arg") or to the frame made by       *)
(* drop_duplicates ("copy"); the assignments of lines 39 and 40 write into  *)
(* whichever frame the name is bound to.                                    *)

NoTable == [cols |-> <<>>, rows |-> <<>>]

Local(st) == st[st.data]

Store(st, tbl) == [st EXCEPT ![st.data] = tbl]

Raise(st, err) == [kind |-> err, st |-> st]

Continue(st) == [kind |-> "ok", st |-> st]

\* a variant of line 38 that deduplicates the caller's frame in place
\* (data.drop_duplicates(inplace=True)) and keeps the name bound to it
line38_drop_duplicates_inplace(data) ==
    [arg |-> drop_duplicates(data), copy |-> NoTable, data |-> "arg"]

\* line 38: data = data.drop_duplicates()  -- the name is rebound to a new frame
line38_drop_duplicates(data) ==
    [arg |-> data, copy |-> drop_duplicates(data), data |-> "copy"]

\* line 39: data['billing_amount'] =
\*              data['billing_amount'].str.replace('$', '').astype(float)
\* (a column has one dtype: the .str accessor refuses a numeric column)
line39_billing_amount(st) ==
    LET d == Local(st) IN
    IF ~HasColumn(d, "billing_amount") THEN Raise(st, "KeyError")
    ELSE
      LET col == getitem(d, "billing_amount")
          replaced == [i \in 1..Len(col) |-> str_replace(col[i].s)]
      IN IF \E i \in 1..Len(col) : col[i].t # "str"
            THEN Raise(st, "AttributeError")
         ELSE IF \E i \in 1..Len(col) : ~IsNumeric(replaced[i])
            THEN Raise(st, "ValueError")
         ELSE Continue(Store(st, setitem(d, "billing_amount",
                 [i \in 1..Len(col) |-> FloatCell(NumVal(replaced[i]))])))

\* a variant of line 40 that leaves tax_amount out of the sum
line40_total_charges_no_tax(st) ==
    LET d == Local(st) IN
    IF ~HasColumn(d, "tax_amount") THEN Raise(st, "KeyError")
    ELSE
      LET b == getitem(d, "billing_amount")
      IN Continue(Store(st, setitem(d, "total_charges",
             [i \in 1..Len(b) |-> FloatCell(b[i].v)])))

\* line 40: data['total_charges'] = data['billing_amount'] + data['tax_amount']
line40_total_charges(st) ==
    LET d == Local(st) IN
    IF ~HasColumn(d, "tax_amount") THEN Raise(st, "KeyError")
    ELSE
      LET b == getitem(d, "billing_amount")
          x == getitem(d, "tax_amount")
      IN Continue(Store(st, setitem(d, "total_charges",
             [i \in 1..Len(b) |-> FloatCell(b[i].v + x[i].v)])))

\* lines 37-41.  kind: "ok" or the exception raised; table: the returned
\* frame; arg: the caller's frame as the call leaves it
data_transformation(data) ==
    LET s38 == line38_drop_duplicates(data)
        s39 == line39_billing_amount(s38)
        s40 == IF s39.kind = "ok" THEN line40_total_charges(s39.st) ELSE s39
    IN [kind |-> s40.kind,
        table |-> IF s40.kind = "ok" THEN Local(s40.st) ELSE NoTable,
        arg |-> s40.st.arg]

----------------------------------------------------------------------------
(* Input tables of data_transformation *)

\* billing texts: an optional leading '$', a body that is empty, numeric,
\* non-numeric or holds an inner '$', and an optional trailing '$'
Affixes == {<<>>, <<"$">>}
Bodies == {<<>>, <<"1">>, <<"1", "2">>, <<"a">>, <<"1", "$", "2">>}
BillingTexts == {p \o b \o q : p \in Affixes, b \in Bodies, q \in Affixes}

BillingValues == {StrCell(s) : s \in BillingTexts}
TaxValues == {IntCell(1), IntCell(2)}
IdValues == {IntCell(1)}
TotalValues == {IntCell(7)}

Layouts ==
    { <<"customer_id", "billing_amount", "tax_amount">>,
      <<"total_charges", "billing_amount", "tax_amount">>,
      <<"customer_id", "billing_amount">>,
      <<"customer_id", "tax_amount">>,
      <<"customer_id">>,
      <<>> }

RowsOf(L, billing) ==
    {[c \in Range(L) |->
        CASE c = "billing_amount" -> b
          [] c = "tax_amount" -> x
          [] c = "customer_id" -> id
          [] OTHER -> tc] :
        b \in billing, x \in TaxValues, id \in IdValues, tc \in TotalValues}

\* a frame without columns has no rows
RowCounts(L) == 0..(IF Len(L) = 0 THEN 0 ELSE MaxRows)

\* input_data is a frame with a string billing_amount column, or one whose
\* billing_amount is already numeric (as the frame of test_data_loading)
IsInputTable(data) ==
    \/ \E L \in Layouts : \E n \in RowCounts(L) :
          \E r \in [1..n -> RowsOf(L, BillingValues)] :
              data = [cols |-> L, rows |-> r]
    \/ \E n \in 1..MaxRows :
          \E r \in [1..n -> RowsOf(<<"customer_id", "billing_amount", "tax_amount">>,
                                   {IntCell(1)})] :
              data = [cols |-> <<"customer_id", "billing_amount", "tax_amount">>,
                      rows |-> r]

----------------------------------------------------------------------------
(* CSV text.  A file is a sequence of lines and a line a sequence of        *)
(* symbols: one-character strings, the separator "," and column names,      *)
(* which are kept as single symbols.  A zero-byte file has no lines.        *)

NoFile == [exists |-> FALSE, lines |-> <<>>]
File(lines) == [exists |-> TRUE, lines |-> lines]

RECURSIVE Join(_)
Join(fields) ==
    IF Len(fields) = 0 THEN <<>>
    ELSE IF Len(fields) = 1 THEN fields[1]
    ELSE fields[1] \o <<",">> \o Join(Tail(fields))

RECURSIVE Split(_)
Split(line) ==
    IF \A i \in 1..Len(line) : line[i] # "," THEN <<line>>
    ELSE LET k == CHOOSE i \in 1..Len(line) :
                      line[i] = "," /\ \A j \in 1..(i - 1) : line[j] # ","
         IN <<SubSeq(line, 1, k - 1)>> \o Split(SubSeq(line, k + 1, Len(line)))

RECURSIVE FormatInt(_)
FormatInt(n) ==
    IF n < 10 THEN <<Digits[n + 1]>>
    ELSE FormatInt(n \div 10) \o <<Digits[(n % 10) + 1]>>

FormatCell(c) ==
    CASE c.t = "str" -> c.s
      [] c.t = "int" -> FormatInt(c.v)
      [] OTHER -> FormatInt(c.v) \o <<".", "0">>

\* the float texts of the model: digits, a point, zeros
IsFloatText(s) ==
    \E k \in 2..(Len(s) - 1) :
        /\ s[k] = "."
        /\ IsNumeric(SubSeq(s, 1, k - 1))
        /\ \A j \in (k + 1)..Len(s) : s[j] = "0"

FloatVal(s) ==
    LET k == CHOOSE i \in 1..Len(s) : s[i] = "." IN NumVal(SubSeq(s, 1, k - 1))

\* DataFrame.to_csv(index=False): the header line, then one line per row
to_csv(data) ==
    <<Join([k \in 1..Len(data.cols) |-> <<data.cols[k]>>])>>
    \o [i \in 1..Len(data.rows) |->
          Join([k \in 1..Len(data.cols) |-> FormatCell(data.rows[i][data.cols[k]])])]

\* pd.read_csv: blank lines are skipped, the first line left is the header,
\* and each column gets the narrowest dtype all of its fields parse as
read_csv(lines) ==
    LET kept == SelectSeq(lines, LAMBDA l : Len(l) > 0) IN
    IF Len(kept) = 0 THEN [kind |-> "EmptyDataError", table |-> NoTable]
    ELSE
      LET header == Split(kept[1])
          cols == [k \in 1..Len(header) |-> header[k][1]]
          n == Len(kept) - 1
          field(i, k) == Split(kept[i + 1])[k]
          AllInt(k) == n > 0 /\ \A i \in 1..n : IsNumeric(field(i, k))
          AllFloat(k) == n > 0 /\ \A i \in 1..n :
                            IsNumeric(field(i, k)) \/ IsFloatText(field(i, k))
          cell(i, k) ==
              IF AllInt(k) THEN IntCell(NumVal(field(i, k)))
              ELSE IF AllFloat(k)
                 THEN FloatCell(IF IsNumeric(field(i, k)) THEN NumVal(field(i, k))
                                ELSE FloatVal(field(i, k)))
              ELSE StrCell(field(i, k))
          ColIndex(c) == CHOOSE k \in 1..Len(cols) : cols[k] = c
      IN [kind |-> "ok",
          table |-> [cols |-> cols,
                     rows |-> [i \in 1..n |->
                                 [c \in Range(cols) |-> cell(i, ColIndex(c))]]]]

----------------------------------------------------------------------------
(* The file system of the tests *)

file_path == "billing_data.csv"
output_file == "transformed_data.csv"
empty_file == "empty_file.csv"
non_existing_file == "non_existing_file.csv"
invalid_output_file == "/content/file.csv"

Paths == {file_path, output_file, empty_file, non_existing_file, invalid_output_file}

\* only the working directory exists; /content does not
DirExists(p) == p # invalid_output_file

\* the frame test_data_extraction expects to read from billing_data.csv
expected_data ==
    [cols |-> <<"customer_id", "billing_amount", "tax_amount">>,
     rows |-> [i \in 1..5 |->
                 [c \in {"customer_id", "billing_amount", "tax_amount"} |->
                    CASE c = "customer_id" -> IntCell(i)
                      [] c = "billing_amount" -> StrCell(<<"$">> \o FormatInt(100 * i))
                      [] OTHER -> IntCell(10 * i)]]]

InitialFiles ==
    [p \in Paths |->
        CASE p = file_path -> File(to_csv(expected_data))
          [] p = empty_file -> File(<<>>)
          [] OTHER -> NoFile]

\* lines 33-35: data = pd.read_csv(file_path); return data
data_extraction(fs, p) ==
    IF ~fs[p].exists THEN [kind |-> "FileNotFoundError", table |-> NoTable]
    ELSE read_csv(fs[p].lines)

\* a variant of data_loading that writes whether or not the directory exists
data_loading_any_dir(fs, data, p) ==
    [kind |-> "ok", fs |-> [fs EXCEPT ![p] = File(to_csv(data))]]

\* lines 43-44: data.to_csv(output_file, index=False) opens the file for
\* writing, which truncates it, and fails when its directory does not exist
data_loading(fs, data, p) ==
    IF ~DirExists(p) THEN [kind |-> "OSError", fs |-> fs]
    ELSE [kind |-> "ok", fs |-> [fs EXCEPT ![p] = File(to_csv(data))]]

----------------------------------------------------------------------------
(* Tables handed to data_loading: an empty frame, integer, string and float *)
(* columns (test_data_loading loads integer and float frames and            *)
(* pd.DataFrame())                                                          *)

LoadLayouts ==
    { <<>>,
      <<"customer_id">>,
      <<"customer_id", "billing_amount">>,
      <<"customer_id", "total_amount">> }

LoadRowsOf(L) ==
    {[c \in Range(L) |->
        CASE c = "customer_id" -> id
          [] c = "billing_amount" -> b
          [] OTHER -> tot] :
        id \in {IntCell(1), IntCell(12)},
        b \in {StrCell(<<"$", "1">>), StrCell(<<"1">>)},
        tot \in {FloatCell(3)}}

LoadPaths == {output_file, invalid_output_file}

----------------------------------------------------------------------------
(* State machines.  Spec: a caller holds a frame and calls                  *)
(* data_transformation on it, repeatedly (test_data_transformation calls it *)
(* twice on the same input_data).  SpecIO: frames are loaded to and         *)
(* extracted from the files of the tests, in any order.                     *)

NoResult == [kind |-> "none", table |-> NoTable]
NoIO == [op |-> "none", path |-> "", kind |-> "none", table |-> NoTable]
NotLoaded == [done |-> FALSE, table |-> NoTable]

InitFiles ==
    /\ files = InitialFiles
    /\ loaded = [p \in Paths |-> NotLoaded]
    /\ io = NoIO

InitNoCalls ==
    /\ result = NoResult
    /\ prev_result = NoResult
    /\ calls = 0

Init ==
    /\ IsInputTable(input_data)
    /\ InitNoCalls
    /\ InitFiles

InitIO ==
    /\ input_data = NoTable
    /\ InitNoCalls
    /\ InitFiles

Transform ==
    /\ calls < MaxCalls
    /\ LET r == data_transformation(input_data) IN
         /\ result' = [kind |-> r.kind, table |-> r.table]
         /\ input_data' = r.arg
    /\ prev_result' = result
    /\ calls' = calls + 1
    /\ UNCHANGED <<files, loaded, io>>

Load(T, p) ==
    /\ LET r == data_loading(files, T, p) IN
         /\ files' = r.fs
         /\ io' = [op |-> "load", path |-> p, kind |-> r.kind, table |-> NoTable]
         /\ loaded' = IF r.kind = "ok"
                         THEN [loaded EXCEPT ![p] = [done |-> TRUE, table |-> T]]
                         ELSE loaded
    /\ UNCHANGED <<input_data, result, prev_result, calls>>

Extract(p) ==
    /\ LET r == data_extraction(files, p) IN
         io' = [op |-> "extract", path |-> p, kind |-> r.kind, table |-> r.table]
    /\ UNCHANGED <<files, loaded, input_data, result, prev_result, calls>>

Next == Transform

NextIO ==
    \/ \E L \in LoadLayouts : \E n \in RowCounts(L) :
          \E r \in [1..n -> LoadRowsOf(L)], p \in LoadPaths :
              Load([cols |-> L, rows |-> r], p)
    \/ \E p \in Paths : Extract(p)

Spec == Init /\ [][Next]_vars

SpecIO == InitIO /\ [][NextIO]_vars

----------------------------------------------------------------------------
(* Properties of data_transformation, checked under Spec.  After a call,    *)
(* input_data is the frame the call was given and result its outcome.       *)

Called == calls > 0

Billing(row) == row["billing_amount"]
Tax(row) == row["tax_amount"]

\* the text with one leading currency symbol taken off
StripLeading(s) == IF Len(s) > 0 /\ Head(s) = "$" THEN Tail(s) ELSE s

HasStrBilling(data) ==
    /\ HasColumn(data, "billing_amount")
    /\ \A i \in 1..Len(data.rows) : Billing(data.rows[i]).t = "str"

\* billing_amount holds currency-prefixed numeric strings, tax_amount numbers
IsCurrencyTable(data) ==
    /\ HasStrBilling(data)
    /\ HasColumn(data, "tax_amount")
    /\ \A i \in 1..Len(data.rows) :
          LET s == Billing(data.rows[i]).s IN
             Len(s) > 1 /\ Head(s) = "$" /\ IsNumeric(Tail(s))

\* C1: for an input whose billing_amount column holds currency-prefixed
\* numeric strings and whose tax_amount column is numeric, the call succeeds
\* and every returned row has total_charges = billing_amount + tax_amount,
\* where billing_amount is the number written in an input row with that tax.
C1_TotalChargesIsSum ==
    (Called /\ IsCurrencyTable(input_data)) =>
        /\ result.kind = "ok"
        /\ \A i \in 1..Len(result.table.rows) :
              LET r == result.table.rows[i] IN
                 /\ r["total_charges"] = FloatCell(Billing(r).v + Tax(r).v)
                 /\ \E j \in 1..Len(input_data.rows) :
                       LET q == input_data.rows[j]
                           amount == NumVal(Tail(Billing(q).s))
                       IN /\ Billing(r) = FloatCell(amount)
                          /\ Tax(r) = Tax(q)
                          /\ r["total_charges"] = FloatCell(amount + Tax(q).v)

C1_Witness ==
    /\ Called
    /\ IsCurrencyTable(input_data)
    /\ result.kind = "ok"
    /\ Len(result.table.rows) = 2
    /\ result.table.rows[1]["total_charges"] = FloatCell(2)
    /\ result.table.rows[2]["total_charges"] = FloatCell(14)

\* C2: the returned table holds no two rows that are equal on all columns.
C2_NoDuplicateRows ==
    (Called /\ result.kind = "ok") =>
        \A i, j \in 1..Len(result.table.rows) :
            i # j => result.table.rows[i] # result.table.rows[j]

\* C3: for a non-empty input without a billing_amount column or without a
\* tax_amount column the call fails with KeyError.
C3_MissingColumnKeyError ==
    (/\ Called
     /\ Len(input_data.rows) > 0
     /\ (~HasColumn(input_data, "billing_amount")
            \/ ~HasColumn(input_data, "tax_amount"))) =>
        result.kind = "KeyError"

\* C4: for an input with zero rows, with or without the billing_amount and
\* tax_amount columns, the call raises nothing and returns zero rows.
C4_EmptyTablePassesThrough ==
    (Called /\ Len(input_data.rows) = 0) =>
        (result.kind = "ok" /\ Len(result.table.rows) = 0)

\* C5: for an input with both columns in which some billing_amount value is
\* not numeric once a single leading currency symbol is taken off, the call
\* fails with ValueError.
C5_LeadingSymbolOnly ==
    (/\ Called
     /\ HasStrBilling(input_data)
     /\ HasColumn(input_data, "tax_amount")
     /\ \E i \in 1..Len(input_data.rows) :
           ~IsNumeric(StripLeading(Billing(input_data.rows[i]).s))) =>
        result.kind = "ValueError"

\* C6 as stated: the returned columns are the input's columns in their order
\* followed by total_charges, also when the input already has total_charges.
C6_TotalChargesAppendedLast ==
    (Called /\ result.kind = "ok") =>
        result.table.cols = Append(input_data.cols, "total_charges")

\* C6 as amended: the returned columns are the input's columns in their
\* order, followed by total_charges when the input has no such column; an
\* input that already has total_charges keeps its columns as they are.
C6_ColumnsAmended ==
    (Called /\ result.kind = "ok") =>
        result.table.cols =
            IF HasColumn(input_data, "total_charges") THEN input_data.cols
            ELSE Append(input_data.cols, "total_charges")

C6_Witness ==
    /\ Called
    /\ result.kind = "ok"
    /\ Len(result.table.rows) > 0
    /\ HasColumn(input_data, "total_charges")
    /\ result.table.cols = <<"total_charges", "billing_amount", "tax_amount">>
    /\ result.table.rows[1]["total_charges"].t = "float"

\* C10: a call, successful or failing, leaves the caller's frame as it was,
\* and a further call on it has the outcome of the call before.
C10_ArgumentUntouched ==
    [][/\ input_data' = input_data
       /\ (Called => result' = result)]_vars

C10_Witness ==
    /\ calls = 2
    /\ result.kind = "ok"
    /\ prev_result = result
    /\ Len(result.table.rows) < Len(input_data.rows)
    /\ HasStrBilling(input_data)
    /\ ~HasColumn(input_data, "total_charges")

----------------------------------------------------------------------------
(* Properties of data_loading and data_extraction, checked under SpecIO     *)

IsNumberCell(c) == c.t \in {"int", "float"} \/ IsNumeric(c.s)
NumberOf(c) == IF c.t = "str" THEN NumVal(c.s) ELSE c.v

\* equality of cells up to the dtype a number is held in
SameCell(a, b) ==
    IF IsNumberCell(a) /\ IsNumberCell(b) THEN NumberOf(a) = NumberOf(b)
    ELSE a = b

SameTable(A, B) ==
    /\ A.cols = B.cols
    /\ Len(A.rows) = Len(B.rows)
    /\ \A i \in 1..Len(A.rows) : \A c \in Range(A.cols) :
          SameCell(A.rows[i][c], B.rows[i][c])

\* C7: extracting from a path returns the table of the latest data_loading
\* to that path (same columns, same rows, in order), whatever was loaded
\* there before.
C7_RoundTrip ==
    (io.op = "extract" /\ loaded[io.path].done) =>
        (io.kind = "ok" /\ SameTable(io.table, loaded[io.path].table))

\* C8: extracting from an existing zero-byte file raises nothing and returns
\* a table with zero rows.
C8_ZeroByteFileEmptyTable ==
    (/\ io.op = "extract"
     /\ files[io.path].exists
     /\ files[io.path].lines = <<>>) =>
        (io.kind = "ok" /\ Len(io.table.rows) = 0)

\* C9: data_loading to a path whose directory does not exist raises an error
\* to the caller, for every table, and leaves no file behind.
C9_MissingDirectoryRaises ==
    (io.op = "load" /\ ~DirExists(io.path)) =>
        (io.kind = "OSError" /\ ~files[io.path].exists)

C9_Witness ==
    /\ io.op = "load"
    /\ io.path = invalid_output_file
    /\ io.kind = "OSError"
    /\ loaded[output_file].done
    /\ Len(loaded[output_file].table.rows) > 0

====
